---- MODULE Spec2Model ----
(***************************************************************************)
(* Model of the UT1300 notification decoder (src/ut1300.py) and of the     *)
(* callback that feeds it (src/main.py, parse_response).                   *)
(*                                                                         *)
(* Bytes are naturals 0..255.  A Python bytes/bytearray value is a TLA+    *)
(* sequence; Python index i is position i+1 of the sequence.               *)
(* bytearray and dict objects are mutable, so they live in two heaps       *)
(* (objects, counters) and the sessions hold references into them.         *)
(***************************************************************************)
EXTENDS Integers, Sequences, FiniteSets, TLC

VARIABLES
    objects,           \* heap of bytearray objects: object id -> bytes
    accumulated_data,  \* session -> id of the bytearray self.accumulated_data names
    counters,          \* heap of dict objects: dict id -> the three success counts
    successes,         \* session -> id of the dict self.successes names
    fields,            \* session -> the measurement attributes of the instance
    result,            \* session -> outcome of its last ingest_data call
    influx,            \* what the last parse_response call wrote to the sink
    call,              \* the last ingest_data call: session, chunk, whether the
                       \* buffer held bytes before it, and the buffer it tested
    returned,          \* session -> number of records returned so far, per type
    fragments,         \* session -> number of chunks the buffer is made of
    delivery,          \* the frame being delivered in pieces (SpecFrag only)
    logged,            \* what report_successes logged, when it ran last
    counter,           \* the SharedCounter of main: count, event, threshold
    tasks              \* the tasks of main's task group: where each one is

vars == <<objects, accumulated_data, counters, successes, fields, result,
          influx, call, returned, fragments, delivery, logged, counter, tasks>>

\* What the decoder's callbacks leave alone.
main_vars == <<counter, tasks>>

----------------------------------------------------------------------------
(* Bounds of the model.                                                    *)

\* A buffer is built from at most this many chunks.
MaxFragments == 2
\* A session decodes at most this many frames.
MaxSuccesses == 2

\* Thresholds a SharedCounter is built with, and calls of increment on it.
MaxThreshold == 8
MaxIncrements == 12

----------------------------------------------------------------------------
(* Constants of the protocol.                                              *)

START_BYTE_1 == 234
START_BYTE_2 == 209
END_BYTE == 245
MIN_LENGTH == 8
PACKET_PREFIX_LENGTH == 4
CELL_VOLTAGES == 2
CURRENT_AND_TEMPERATURE == 3
BATTERY_PACK_INFO == 4
DISCHARGING_CODE == 49
CHARGING_CODE == 50
TEMPERATURE_OFFSET == 40

Sessions == {1, 2}

Types == {"cell_voltages", "battery_pack_info", "current_and_temperature"}

\* float(num) / den, kept exact.
Float(num, den) == [num |-> num, den |-> den]

\* The object a fresh bytearray() of session s is.
NewByteArray(s) == <<"bytearray", s>>

\* The bytearray object the transport hands to parse_response for session s:
\* every notification is delivered in an object of its own.
DataObject(s) == <<"data", s>>

\* A class-level dict, shared by the instances.
SharedSuccessesObject(s) == <<"successes", 0>>

\* The dict object __init__ creates for self.successes.
SuccessesObject(s) == <<"successes", s>>

ZeroSuccesses == [t \in Types |-> 0]

\* The measurement attributes __init__ sets.
InitFields ==
    [cell1_voltage |-> Float(0, 1000), cell2_voltage |-> Float(0, 1000),
     cell3_voltage |-> Float(0, 1000), cell4_voltage |-> Float(0, 1000),
     cycle_count |-> 0, state_of_charge |-> 0,
     full_capacity |-> Float(0, 1000), remaining_capacity |-> Float(0, 1000),
     battery_state |-> "UNKNOWN", current |-> Float(0, 100),
     temperature1 |-> 0, temperature2 |-> 0,
     mosfet_temperature |-> 0, ambient_temperature |-> 0,
     discharge_time_left |-> Float(0, 1), charge_time_left |-> Float(0, 1),
     total_voltage |-> Float(0, 100),
     max_cell_voltage |-> Float(0, 1000), min_cell_voltage |-> Float(0, 1000)]

\* The bytes self.accumulated_data of session s holds.
Buffer(s) == objects[accumulated_data[s]]

\* The success counts of session s.
Successes(s) == counters[successes[s]]

----------------------------------------------------------------------------
(* The predicates of the accumulator.                                      *)

\* data[i] is in range (no IndexError).
InRange(buf, i) == i < Len(buf)

\* data[i], Python index.
At(buf, i) == buf[i + 1]

\* Any chunk of more than two bytes passes for a start of frame.
IsStartOfMessageAny(data) == Len(data) > 2

IsStartOfMessage(data) ==
    /\ Len(data) > 2
    /\ At(data, 0) = START_BYTE_1
    /\ At(data, 1) = START_BYTE_2

IsMessageMinLength(buf) == Len(buf) >= MIN_LENGTH

\* accumulated_data[-1] == end_byte; only evaluated on a non-empty buffer.
IsCompleteMessage(buf) == buf[Len(buf)] = END_BYTE

IsCorrectLength(buf) == At(buf, 3) + PACKET_PREFIX_LENGTH = Len(buf)

\* The end byte is not tested either.
IsValidMessageNoEnd(buf) == IsMessageMinLength(buf)

\* _is_valid_message names self._is_correct_length without calling it: the
\* third conjunct is a bound method object, which is true.
IsValidMessage(buf) ==
    IsMessageMinLength(buf) /\ IsCompleteMessage(buf) /\ TRUE

----------------------------------------------------------------------------
(* The decoder.  A parse routine is a list of attribute assignments run in *)
(* source order; each reads its bytes left to right, and the first index   *)
(* out of range raises IndexError, leaving the earlier assignments done.   *)

\* float((base) + (data[hi] << 8) + data[lo]) / den
Word(attr, hi, lo, base, den) ==
    [attr |-> attr, reads |-> <<hi, lo>>, base |-> base, off |-> 0, den |-> den]

\* data[i] - off, an int
Byte(attr, i, off) ==
    [attr |-> attr, reads |-> <<i>>, base |-> 0, off |-> off, den |-> 0]

Raw(buf, reads) ==
    IF Len(reads) = 2
    THEN At(buf, reads[1]) * 256 + At(buf, reads[2])
    ELSE At(buf, reads[1])

StepValue(buf, st) ==
    IF st.den = 0
    THEN Raw(buf, st.reads) - st.off
    ELSE Float(st.base + Raw(buf, st.reads), st.den)

RECURSIVE RunSteps(_, _, _)
RunSteps(buf, flds, steps) ==
    IF steps = <<>>
    THEN [ok |-> TRUE, fields |-> flds]
    ELSE LET st == Head(steps)
         IN  IF \E k \in 1..Len(st.reads) : ~InRange(buf, st.reads[k])
             THEN [ok |-> FALSE, fields |-> flds]
             ELSE RunSteps(buf, [flds EXCEPT ![st.attr] = StepValue(buf, st)],
                           Tail(steps))

\* Python's None, as the record a call returns.
NoRecord == <<>>

\* What a parse routine leaves: the kind of outcome, the attributes after
\* it, the dict it returns, and whether it reset the buffer and counted.
Returned(type, flds, names) ==
    [kind |-> "record", type |-> type, fields |-> flds,
     record |-> [a \in names |-> flds[a]]]

Raised(type, flds) ==
    [kind |-> "IndexError", type |-> type, fields |-> flds, record |-> NoRecord]

ReturnedNone(flds) ==
    [kind |-> "none", type |-> "", fields |-> flds, record |-> NoRecord]

CellVoltageSteps ==
    << Word("cell1_voltage", 9, 10, 0, 1000),
       Word("cell2_voltage", 11, 12, 0, 1000),
       Word("cell3_voltage", 13, 14, 0, 1000),
       Word("cell4_voltage", 15, 16, 0, 1000) >>

CellVoltageNames ==
    {"cell1_voltage", "cell2_voltage", "cell3_voltage", "cell4_voltage"}

\* The four words read two bytes early (7..14 instead of 9..16).
ParseCellVoltagesShifted(buf, flds) ==
    LET r == RunSteps(buf, flds,
                 << Word("cell1_voltage", 7, 8, 0, 1000),
                    Word("cell2_voltage", 9, 10, 0, 1000),
                    Word("cell3_voltage", 11, 12, 0, 1000),
                    Word("cell4_voltage", 13, 14, 0, 1000) >>)
    IN  IF r.ok THEN Returned("cell_voltages", r.fields, CellVoltageNames)
        ELSE Raised("cell_voltages", r.fields)

ParseCellVoltages(buf, flds) ==
    LET r == RunSteps(buf, flds, CellVoltageSteps)
    IN  IF r.ok THEN Returned("cell_voltages", r.fields, CellVoltageNames)
        ELSE Raised("cell_voltages", r.fields)

CurrentSteps == << Word("current", 7, 8, 0, 100) >>

TemperatureSteps ==
    << Byte("temperature1", 14, TEMPERATURE_OFFSET),
       Byte("temperature2", 15, TEMPERATURE_OFFSET),
       Byte("mosfet_temperature", 16, TEMPERATURE_OFFSET),
       Byte("ambient_temperature", 17, TEMPERATURE_OFFSET) >>

CurrentAndTemperatureNames ==
    {"current", "temperature1", "temperature2", "mosfet_temperature",
     "ambient_temperature"}

\* The branch on data[6] with its first two arms exchanged.
BatteryStateSwapped(buf, flds) ==
    IF At(buf, 6) = CHARGING_CODE
    THEN [flds EXCEPT !.battery_state = "DISCHARGING",
                      !.current = Float(0 - flds.current.num, flds.current.den)]
    ELSE IF At(buf, 6) = DISCHARGING_CODE
    THEN [flds EXCEPT !.battery_state = "CHARGING"]
    ELSE [flds EXCEPT !.battery_state = "UNKNOWN"]

\* The branch on data[6]: the state, and the sign of the current.
BatteryState(buf, flds) ==
    IF At(buf, 6) = DISCHARGING_CODE
    THEN [flds EXCEPT !.battery_state = "DISCHARGING",
                      !.current = Float(0 - flds.current.num, flds.current.den)]
    ELSE IF At(buf, 6) = CHARGING_CODE
    THEN [flds EXCEPT !.battery_state = "CHARGING"]
    ELSE [flds EXCEPT !.battery_state = "UNKNOWN"]

ParseCurrentAndTemperature(buf, flds) ==
    LET c == RunSteps(buf, flds, CurrentSteps)
    IN  IF ~c.ok THEN Raised("current_and_temperature", c.fields)
        ELSE IF ~InRange(buf, 6) THEN Raised("current_and_temperature", c.fields)
        ELSE LET t == RunSteps(buf, BatteryState(buf, c.fields), TemperatureSteps)
             IN  IF t.ok
                 THEN Returned("current_and_temperature", t.fields,
                               CurrentAndTemperatureNames)
                 ELSE Raised("current_and_temperature", t.fields)

BatteryPackInfoSteps ==
    << Byte("cycle_count", 6, 0),
       Byte("state_of_charge", 7, 0),
       Word("full_capacity", 21, 22, 65536, 1000),
       Word("remaining_capacity", 27, 28, 0, 1000),
       Word("discharge_time_left", 30, 31, 0, 1),
       Word("charge_time_left", 33, 34, 0, 1),
       Word("total_voltage", 47, 48, 0, 100),
       Word("max_cell_voltage", 49, 50, 0, 1000),
       Word("min_cell_voltage", 51, 52, 0, 1000) >>

BatteryPackInfoNames ==
    {"cycle_count", "state_of_charge", "full_capacity", "remaining_capacity",
     "discharge_time_left", "charge_time_left", "total_voltage",
     "max_cell_voltage", "min_cell_voltage"}

ParseBatteryPackInfo(buf, flds) ==
    LET r == RunSteps(buf, flds, BatteryPackInfoSteps)
    IN  IF r.ok THEN Returned("battery_pack_info", r.fields, BatteryPackInfoNames)
        ELSE Raised("battery_pack_info", r.fields)

\* The last branch is an else: every other discriminant is pack info.
ParseMessageElse(buf, flds) ==
    IF At(buf, 5) = CELL_VOLTAGES THEN ParseCellVoltages(buf, flds)
    ELSE IF At(buf, 5) = CURRENT_AND_TEMPERATURE
    THEN ParseCurrentAndTemperature(buf, flds)
    ELSE ParseBatteryPackInfo(buf, flds)

\* The dispatch catches IndexError and returns None.
ParseMessageQuiet(buf, flds) ==
    LET out == IF At(buf, 5) = CELL_VOLTAGES THEN ParseCellVoltages(buf, flds)
               ELSE IF At(buf, 5) = CURRENT_AND_TEMPERATURE
               THEN ParseCurrentAndTemperature(buf, flds)
               ELSE IF At(buf, 5) = BATTERY_PACK_INFO
               THEN ParseBatteryPackInfo(buf, flds)
               ELSE ReturnedNone(flds)
    IN  IF out.kind = "IndexError" THEN ReturnedNone(out.fields) ELSE out

\* The dispatch on data[5]; falling off the end returns None.
ParseMessage(buf, flds) ==
    IF At(buf, 5) = CELL_VOLTAGES THEN ParseCellVoltages(buf, flds)
    ELSE IF At(buf, 5) = CURRENT_AND_TEMPERATURE
    THEN ParseCurrentAndTemperature(buf, flds)
    ELSE IF At(buf, 5) = BATTERY_PACK_INFO THEN ParseBatteryPackInfo(buf, flds)
    ELSE ReturnedNone(flds)

----------------------------------------------------------------------------
(* The accumulator: ingest_data and its caller.                            *)

\* A start chunk is appended to a buffer that is not empty.
AccumulateNoReset(s, data) ==
    IF IsStartOfMessage(data) /\ Buffer(s) = <<>>
    THEN [ref |-> DataObject(s), objs |-> (DataObject(s) :> data) @@ objects]
    ELSE IF Buffer(s) # <<>>
    THEN [ref |-> accumulated_data[s],
          objs |-> [objects EXCEPT ![accumulated_data[s]] = @ \o data]]
    ELSE [ref |-> accumulated_data[s], objs |-> objects]

\* The elif is an else: a chunk is appended to an empty buffer too.
AccumulateAlways(s, data) ==
    IF IsStartOfMessage(data)
    THEN [ref |-> DataObject(s), objs |-> (DataObject(s) :> data) @@ objects]
    ELSE [ref |-> accumulated_data[s],
          objs |-> [objects EXCEPT ![accumulated_data[s]] = @ \o data]]

\* A continuation chunk is put in front of the buffer.
AccumulatePrepend(s, data) ==
    IF IsStartOfMessage(data)
    THEN [ref |-> DataObject(s), objs |-> (DataObject(s) :> data) @@ objects]
    ELSE IF Buffer(s) # <<>>
    THEN [ref |-> accumulated_data[s],
          objs |-> [objects EXCEPT ![accumulated_data[s]] = data \o @]]
    ELSE [ref |-> accumulated_data[s], objs |-> objects]

\* The update step of ingest_data: a start chunk becomes the buffer (the
\* attribute is bound to the caller's object), any other chunk is appended
\* in place to a buffer that is not empty, and is dropped otherwise.
Accumulate(s, data) ==
    IF IsStartOfMessage(data)
    THEN [ref |-> DataObject(s), objs |-> (DataObject(s) :> data) @@ objects]
    ELSE IF Buffer(s) # <<>>
    THEN [ref |-> accumulated_data[s],
          objs |-> [objects EXCEPT ![accumulated_data[s]] = @ \o data]]
    ELSE [ref |-> accumulated_data[s], objs |-> objects]

\* The increment is the first statement of the routine: a routine that
\* raises has counted already.
CountFirst(s, out) ==
    IF out.kind # "none"
    THEN [counters EXCEPT ![successes[s]][out.type] = @ + 1]
    ELSE counters

\* self.successes[type] += 1, reached when no read raised.
Count(s, out) ==
    IF out.kind = "record"
    THEN [counters EXCEPT ![successes[s]][out.type] = @ + 1]
    ELSE counters

\* The number of chunks the buffer of session s is made of after the call.
Fragments(s, data, out) ==
    IF out.kind = "record" THEN 0
    ELSE IF IsStartOfMessage(data) THEN 1
    ELSE IF Buffer(s) # <<>> THEN fragments[s] + 1
    ELSE fragments[s]

ingest_data(s, data) ==
    LET acc  == Accumulate(s, data)
        buf  == acc.objs[acc.ref]
        out  == IF IsValidMessage(buf) THEN ParseMessage(buf, fields[s])
                ELSE ReturnedNone(fields[s])
        \* a routine that returns has bound the attribute to a new bytearray()
        refs == IF out.kind = "record"
                THEN [accumulated_data EXCEPT ![s] = NewByteArray(s)]
                ELSE [accumulated_data EXCEPT ![s] = acc.ref]
        objs == IF out.kind = "record"
                THEN (NewByteArray(s) :> <<>>) @@ acc.objs
                ELSE acc.objs
    IN  /\ accumulated_data' = refs
        /\ objects' = [o \in {refs[t] : t \in Sessions} |-> objs[o]]
        /\ fields' = [fields EXCEPT ![s] = out.fields]
        /\ counters' = Count(s, out)
        /\ result' = [result EXCEPT ![s] =
                        [kind |-> out.kind, type |-> out.type, record |-> out.record]]
        /\ returned' = IF out.kind = "record"
                       THEN [returned EXCEPT ![s][out.type] = @ + 1]
                       ELSE returned
        /\ call' = [session |-> s, data |-> data, nonempty |-> (Buffer(s) # <<>>),
                    evaluated |-> buf]
        /\ fragments' = [fragments EXCEPT ![s] = Fragments(s, data, out)]

\* Nothing was written to the sink.
NoPoint == <<>>

\* parse_response: the notification callback.  A record is written to the
\* sink; None is not; an exception leaves the callback before the write.
parse_response(s, data) ==
    /\ ingest_data(s, data)
    /\ influx' = IF result'[s].kind = "record"
                 THEN [measurement |-> "battery", name |-> s,
                       fields |-> result'[s].record]
                 ELSE NoPoint

\* The bounds of the model on one delivery.
WithinBounds(s) ==
    /\ fragments'[s] <= MaxFragments
    /\ counters'[successes[s]]["cell_voltages"]
         + counters'[successes[s]]["battery_pack_info"]
         + counters'[successes[s]]["current_and_temperature"] <= MaxSuccesses

----------------------------------------------------------------------------
(* The frames and chunks delivered.                                        *)

\* Section 8, scenario 2: a 22-byte cell-voltage frame; byte 17 is 0xF5.
CellFrame ==
    << 234, 209, 1, 18, 255, 2, 0, 0, 0,
       15, 160, 15, 156, 15, 136, 15, 120, 245, 0, 0, 0, 245 >>

\* A 19-byte current-and-temperature frame, discharging, 1.00 A; bytes 9, 10
\* are 0xEA 0xD1.
CurrentFrame ==
    << 234, 209, 1, 15, 255, 3, 49, 0, 100,
       234, 209, 0, 0, 0, 60, 61, 65, 55, 245 >>

PackInfoBytes ==
    (0 :> 234) @@ (1 :> 209) @@ (2 :> 1) @@ (3 :> 50) @@ (4 :> 255) @@ (5 :> 4)
    @@ (6 :> 10) @@ (7 :> 80) @@ (21 :> 134) @@ (22 :> 160)
    @@ (27 :> 78) @@ (28 :> 32) @@ (31 :> 120)
    @@ (47 :> 5) @@ (48 :> 40) @@ (49 :> 12) @@ (50 :> 228)
    @@ (51 :> 12) @@ (52 :> 218) @@ (53 :> 245)

\* A 54-byte pack-info frame.
PackInfoFrame ==
    [i \in 1..54 |-> IF (i - 1) \in DOMAIN PackInfoBytes
                     THEN PackInfoBytes[i - 1] ELSE 0]

\* The three commands, which are frames of 8 bytes.
RequestCellVoltages == << 234, 209, 1, 4, 255, 2, 249, 245 >>
RequestBatteryPackInfo == << 234, 209, 1, 4, 255, 3, 248, 245 >>
RequestCurrentAndTemperature == << 234, 209, 1, 4, 255, 4, 255, 245 >>

\* A frame of 8 bytes with a discriminant no routine handles.
UnknownFrame == << 234, 209, 1, 4, 255, 5, 250, 245 >>

\* data[from:to], Python slice.
Slice(data, from, to) == SubSeq(data, from + 1, to)

\* The chunks a notification may carry.
Chunks ==
    { CellFrame, CurrentFrame, PackInfoFrame,
      RequestCellVoltages, RequestBatteryPackInfo, RequestCurrentAndTemperature,
      UnknownFrame,
      Slice(RequestCellVoltages, 0, 6), Slice(RequestCellVoltages, 6, 8),
      Slice(CellFrame, 0, 18), Slice(CellFrame, 0, 2), Slice(CellFrame, 6, 9) }

\* CurrentFrame with data[6] and the current word replaced.
WithState(code, hi, lo) ==
    [i \in 1..Len(CurrentFrame) |->
        IF i = 7 THEN code ELSE IF i = 8 THEN hi ELSE IF i = 9 THEN lo
        ELSE CurrentFrame[i]]

ChargingFrame == WithState(50, 1, 44)
IdleFrame == WithState(0, 0, 0)

\* The chunks of a session that is only asked for current and temperatures.
CurrentChunks ==
    { CurrentFrame, ChargingFrame, IdleFrame, RequestBatteryPackInfo,
      Slice(CurrentFrame, 0, 7), Slice(CurrentFrame, 7, 19),
      Slice(ChargingFrame, 0, 7), Slice(ChargingFrame, 7, 19) }

----------------------------------------------------------------------------
(* SharedCounter (src/utils.py) and the tasks of main (src/main.py).       *)

NUM_BATTERIES == 4

\* discover_batteries returns once it holds NUM_BATTERIES devices.
Batteries == 1..NUM_BATTERIES

\* SharedCounter.__init__
SharedCounter(threshold) ==
    [count |-> 0, event |-> FALSE, threshold |-> threshold]

\* The event is set from the threshold on, and one call too late.
IncrementLate(c) ==
    LET n == c.count + 1
    IN  [c EXCEPT !.count = n, !.event = c.event \/ n = c.threshold + 1]

\* SharedCounter.increment
Increment(c) ==
    LET n == c.count + 1
    IN  [c EXCEPT !.count = n, !.event = c.event \/ n = c.threshold]

\* main, up to the task group: the counter, and one monitor_and_report task
\* per battery beside monitor_bmv; no task has run yet.
InitTasks ==
    [bmv |-> "waiting", battery |-> [b \in Batteries |-> "created"],
     connected |-> {}, aborted |-> FALSE]

InitMain ==
    /\ counter = SharedCounter(NUM_BATTERIES)
    /\ tasks = InitTasks

\* report_successes has not run since the last notification.
NoLog == <<>>

----------------------------------------------------------------------------
(* The specification of one session fed by the transport.                  *)

NoResult == [kind |-> "none", type |-> "", record |-> NoRecord]

NoCall == [session |-> 0, data |-> <<>>, nonempty |-> FALSE, evaluated |-> <<>>]

NoDelivery == [frame |-> <<>>, todo |-> <<>>, whole |-> FALSE]

\* UT1300.__init__ of every session; nothing delivered, nothing logged.
InitSessions ==
    /\ accumulated_data = [s \in Sessions |-> NewByteArray(s)]
    /\ objects = [o \in {NewByteArray(s) : s \in Sessions} |-> <<>>]
    /\ successes = [s \in Sessions |-> SuccessesObject(s)]
    /\ counters = [d \in {SuccessesObject(s) : s \in Sessions} |-> ZeroSuccesses]
    /\ fields = [s \in Sessions |-> InitFields]
    /\ result = [s \in Sessions |-> NoResult]
    /\ influx = NoPoint
    /\ call = NoCall
    /\ returned = [s \in Sessions |-> ZeroSuccesses]
    /\ fragments = [s \in Sessions |-> 0]
    /\ delivery = NoDelivery
    /\ logged = NoLog

Init == InitSessions /\ InitMain

\* A notification for session 1 arrives.
Notify ==
    \E data \in Chunks :
        /\ parse_response(1, data)
        /\ WithinBounds(1)
        /\ UNCHANGED <<successes, delivery, logged, main_vars>>

Next == Notify

Spec == Init /\ [][Next]_vars

----------------------------------------------------------------------------
(* Two sessions fed by the transport, in any interleaving.                 *)

SessionChunks ==
    { CellFrame, UnknownFrame, RequestCurrentAndTemperature,
      Slice(RequestCellVoltages, 0, 6), Slice(RequestCellVoltages, 6, 8) }

NotifyAny ==
    \E s \in Sessions, data \in SessionChunks :
        /\ parse_response(s, data)
        /\ WithinBounds(s)
        /\ UNCHANGED <<successes, delivery, logged, main_vars>>

NextSessions == NotifyAny

SpecSessions == Init /\ [][NextSessions]_vars

----------------------------------------------------------------------------
(* One frame delivered in pieces to session 1 and whole to session 2.      *)

\* The frames that are complete and valid (section 3 of the specification).
ValidFrames == {CellFrame, CurrentFrame, PackInfoFrame, RequestCellVoltages}

\* The places where the transport may cut a frame.
Cuts(f) ==
    IF f = CellFrame THEN {1, 2, 6, 18}
    ELSE IF f = CurrentFrame THEN {2, 9}
    ELSE IF f = PackInfoFrame THEN {20, 40}
    ELSE {6}

Min(S) == CHOOSE m \in S : \A n \in S : m <= n

\* The pieces of f from offset from on, cut at the offsets in C.
RECURSIVE Pieces(_, _, _)
Pieces(f, from, C) ==
    IF C = {} THEN << Slice(f, from, Len(f)) >>
    ELSE << Slice(f, from, Min(C)) >> \o Pieces(f, Min(C), C \ {Min(C)})

Partitions(f) == { Pieces(f, 0, C) : C \in SUBSET Cuts(f) }

InitFrag ==
    /\ accumulated_data = [s \in Sessions |-> NewByteArray(s)]
    /\ objects = [o \in {NewByteArray(s) : s \in Sessions} |-> <<>>]
    /\ successes = [s \in Sessions |-> SuccessesObject(s)]
    /\ counters = [d \in {SuccessesObject(s) : s \in Sessions} |-> ZeroSuccesses]
    /\ fields = [s \in Sessions |-> InitFields]
    /\ result = [s \in Sessions |-> NoResult]
    /\ influx = NoPoint
    /\ call = NoCall
    /\ returned = [s \in Sessions |-> ZeroSuccesses]
    /\ fragments = [s \in Sessions |-> 0]
    /\ \E f \in ValidFrames :
           \E p \in Partitions(f) :
               delivery = [frame |-> f, todo |-> p, whole |-> FALSE]
    /\ logged = NoLog
    /\ InitMain

\* The next piece reaches session 1.
DeliverPiece ==
    /\ delivery.todo # <<>>
    /\ parse_response(1, Head(delivery.todo))
    /\ delivery' = [delivery EXCEPT !.todo = Tail(@)]
    /\ UNCHANGED <<successes, logged, main_vars>>

\* The whole frame reaches session 2 as one chunk.
DeliverWhole ==
    /\ ~delivery.whole
    /\ parse_response(2, delivery.frame)
    /\ delivery' = [delivery EXCEPT !.whole = TRUE]
    /\ UNCHANGED <<successes, logged, main_vars>>

NextFrag == DeliverPiece \/ DeliverWhole

SpecFrag == InitFrag /\ [][NextFrag]_vars

----------------------------------------------------------------------------
(* One session that receives current-and-temperature frames.               *)

NotifyCurrent ==
    \E data \in CurrentChunks :
        /\ parse_response(1, data)
        /\ WithinBounds(1)
        /\ UNCHANGED <<successes, delivery, logged, main_vars>>

NextCurrent == NotifyCurrent

SpecCurrent == Init /\ [][NextCurrent]_vars

----------------------------------------------------------------------------
(* A SharedCounter of any threshold, incremented any number of times.      *)

InitCounter ==
    /\ InitSessions
    /\ \E threshold \in 1..MaxThreshold : counter = SharedCounter(threshold)
    /\ tasks = InitTasks

\* counter.increment()
counter_increment ==
    /\ counter.count < MaxIncrements
    /\ counter' = Increment(counter)
    /\ UNCHANGED <<objects, accumulated_data, counters, successes, fields,
                   result, influx, call, returned, fragments, delivery,
                   logged, tasks>>

NextCounter == counter_increment

SpecCounter == InitCounter /\ [][NextCounter]_vars

----------------------------------------------------------------------------
(* The task group of main: monitor_bmv and one monitor_and_report task per *)
(* battery, run by the event loop one step at a time.  A task that raises  *)
(* makes the group cancel every other task, in a later step of the loop.   *)

decoder_vars == <<objects, accumulated_data, counters, successes, fields,
                  result, influx, call, returned, fragments, delivery, logged>>

\* monitor_and_report up to the await inside BleakClient.__aenter__.
start_connecting(b) ==
    /\ tasks.battery[b] = "created"
    /\ tasks' = [tasks EXCEPT !.battery[b] = "connecting"]
    /\ UNCHANGED <<counter, decoder_vars>>

\* The connection is made: the task enters the async with body and calls
\* counter.increment() before its next await.
connect(b) ==
    /\ tasks.battery[b] = "connecting"
    /\ counter' = Increment(counter)
    /\ tasks' = [tasks EXCEPT !.battery[b] = "running",
                              !.connected = @ \cup {b}]
    /\ UNCHANGED decoder_vars

\* BleakClient.__aenter__, start_notify or write_gatt_char raises: the task
\* ends with an exception.
fail(b) ==
    /\ tasks.battery[b] \in {"connecting", "running"}
    /\ tasks' = [tasks EXCEPT !.battery[b] = "failed"]
    /\ UNCHANGED <<counter, decoder_vars>>

\* TaskGroup, on a task that raised: every task that is not done is
\* cancelled, monitor_bmv at its await included.
abort ==
    /\ ~tasks.aborted
    /\ \E b \in Batteries : tasks.battery[b] = "failed"
    /\ tasks' = [tasks EXCEPT
                   !.aborted = TRUE,
                   !.bmv = IF @ = "waiting" THEN "cancelled" ELSE "stopped",
                   !.battery = [b \in Batteries |->
                                   IF @[b] = "failed" THEN "failed"
                                   ELSE "cancelled"]]
    /\ UNCHANGED <<counter, decoder_vars>>

\* The scan starts without waiting for the event.
monitor_bmv_at_once ==
    /\ tasks.bmv = "waiting"
    /\ tasks' = [tasks EXCEPT !.bmv = "scanning"]
    /\ UNCHANGED <<counter, decoder_vars>>

\* monitor_bmv resumes from counter.event.wait() and starts the scan.
monitor_bmv ==
    /\ tasks.bmv = "waiting"
    /\ counter.event
    /\ tasks' = [tasks EXCEPT !.bmv = "scanning"]
    /\ UNCHANGED <<counter, decoder_vars>>

NextMain ==
    \/ \E b \in Batteries : start_connecting(b)
    \/ \E b \in Batteries : connect(b)
    \/ \E b \in Batteries : fail(b)
    \/ abort
    \/ monitor_bmv

\* The event loop runs every task that is ready; that an operation of the
\* transport fails is not owed to anyone.
SpecMain ==
    /\ Init /\ [][NextMain]_vars
    /\ \A b \in Batteries : WF_vars(start_connecting(b)) /\ WF_vars(connect(b))
    /\ WF_vars(abort)
    /\ WF_vars(monitor_bmv)

----------------------------------------------------------------------------
(* One session fed by the transport and reported on by the periodic        *)
(* report_successes task, in any interleaving.                             *)

\* The report also clears the counters it has logged.
report_and_reset(s) ==
    /\ logged' = [session |-> s, counts |-> Successes(s)]
    /\ counters' = [counters EXCEPT ![successes[s]] = ZeroSuccesses]
    /\ UNCHANGED <<objects, accumulated_data, successes, fields, result,
                   influx, call, returned, fragments, delivery, main_vars>>

\* UT1300.report_successes: the three counters are read and logged.
report_successes(s) ==
    /\ logged' = [session |-> s, counts |-> Successes(s)]
    /\ UNCHANGED <<objects, accumulated_data, counters, successes, fields,
                   result, influx, call, returned, fragments, delivery,
                   main_vars>>

\* A notification arrives; the last call is no longer a report.
NotifyReport ==
    \E data \in SessionChunks :
        /\ parse_response(1, data)
        /\ WithinBounds(1)
        /\ logged' = NoLog
        /\ UNCHANGED <<successes, delivery, main_vars>>

NextReport ==
    \/ NotifyReport
    \/ report_successes(1)

SpecReport == Init /\ [][NextReport]_vars

----------------------------------------------------------------------------
(* The claims.                                                             *)

\* Section 3 of the specification: a frame is complete and valid.
CompleteAndValid(f) ==
    /\ Len(f) >= 8
    /\ f[Len(f)] = 245
    /\ At(f, 3) + 4 = Len(f)

\* The session that made the last call.
Called(s) == call.session = s

\* C1: a record is produced, and a decode routine entered, only when the
\* buffer tested satisfies buffer[3] + 4 == len(buffer).
C1_LengthChecked ==
    \A s \in Sessions :
        (Called(s) /\ result[s].kind # "none") => IsCorrectLength(call.evaluated)

\* C2: the pieces of a valid frame, delivered in order to a fresh session,
\* produce no record before the last piece, and the last piece produces the
\* record the whole frame produces as one chunk.
C2_FragmentationTransparent ==
    /\ (Called(1) /\ delivery.todo # <<>>) => result[1].kind # "record"
    /\ (delivery.frame # <<>> /\ delivery.todo = <<>> /\ delivery.whole)
           => result[1] = result[2]

\* The frame is long enough for the routine its discriminant selects.
LongEnough(f) ==
    \/ At(f, 5) = 2 /\ Len(f) >= 17
    \/ At(f, 5) = 3 /\ Len(f) >= 18
    \/ At(f, 5) = 4 /\ Len(f) >= 53

\* (f[hi] << 8) + f[lo]
BigEndian(f, hi, lo) == At(f, hi) * 256 + At(f, lo)

\* The record of section 4.2 for frame f.
Formulas(f) ==
    IF At(f, 5) = 2
    THEN [cell1_voltage |-> Float(BigEndian(f, 9, 10), 1000),
          cell2_voltage |-> Float(BigEndian(f, 11, 12), 1000),
          cell3_voltage |-> Float(BigEndian(f, 13, 14), 1000),
          cell4_voltage |-> Float(BigEndian(f, 15, 16), 1000)]
    ELSE IF At(f, 5) = 3
    THEN [current |-> IF At(f, 6) = 49 THEN Float(0 - BigEndian(f, 7, 8), 100)
                      ELSE Float(BigEndian(f, 7, 8), 100),
          temperature1 |-> At(f, 14) - 40,
          temperature2 |-> At(f, 15) - 40,
          mosfet_temperature |-> At(f, 16) - 40,
          ambient_temperature |-> At(f, 17) - 40]
    ELSE [cycle_count |-> At(f, 6),
          state_of_charge |-> At(f, 7),
          full_capacity |-> Float(65536 + BigEndian(f, 21, 22), 1000),
          remaining_capacity |-> Float(BigEndian(f, 27, 28), 1000),
          discharge_time_left |-> Float(BigEndian(f, 30, 31), 1),
          charge_time_left |-> Float(BigEndian(f, 33, 34), 1),
          total_voltage |-> Float(BigEndian(f, 47, 48), 100),
          max_cell_voltage |-> Float(BigEndian(f, 49, 50), 1000),
          min_cell_voltage |-> Float(BigEndian(f, 51, 52), 1000)]

\* C3, as stated: every valid frame delivered as a single chunk is decoded
\* in that call.
C3_EveryValidFrameDecoded ==
    \A s \in Sessions :
        (Called(s) /\ IsStartOfMessage(call.data) /\ CompleteAndValid(call.data))
            => result[s].kind = "record"

\* C3, amended: a valid frame delivered as a single chunk that is long
\* enough for the routine its discriminant selects (17, 18, 53 bytes for
\* 0x02, 0x03, 0x04) is decoded in that call, and the record returned and
\* written holds the values of the section 4.2 formulas; bytes 9..16 =
\* 0F A0 0F 9C 0F 88 0F 78 give 4.000, 3.996, 3.976, 3.960.
C3_SingleChunkDecoded ==
    \A s \in Sessions :
        /\ (Called(s) /\ IsStartOfMessage(call.data)
                /\ CompleteAndValid(call.data) /\ LongEnough(call.data))
              => /\ result[s].kind = "record"
                 /\ result[s].record = Formulas(call.data)
                 /\ influx # NoPoint
                 /\ influx.fields = Formulas(call.data)
        /\ (Called(s) /\ call.data = CellFrame)
              => result[s].record =
                     [cell1_voltage |-> Float(4000, 1000),
                      cell2_voltage |-> Float(3996, 1000),
                      cell3_voltage |-> Float(3976, 1000),
                      cell4_voltage |-> Float(3960, 1000)]

C3_Witness ==
    /\ Called(1) /\ call.data = CellFrame
    /\ result[1].kind = "record"
    /\ result[1].record.cell2_voltage = Float(3996, 1000)
    /\ fields[1].state_of_charge = 80

\* C4: a start-of-frame chunk replaces the buffer before completeness is
\* tested, whatever the buffer held: the buffer tested, and so the frame
\* decoded, is exactly that chunk.
C4_StartReplacesBuffer ==
    \A s \in Sessions :
        (Called(s) /\ IsStartOfMessage(call.data))
            => /\ call.evaluated = call.data
               /\ result[s].kind = "record" => result[s].record = Formulas(call.data)
               /\ result[s].kind # "record" => Buffer(s) = call.data

C4_Witness ==
    /\ Called(1) /\ call.nonempty
    /\ call.data = CellFrame
    /\ result[1].kind = "record"

\* C5: a chunk that is not a start of frame, arriving at an empty buffer,
\* is dropped: the buffer stays empty, no counter and no attribute changes,
\* the call returns None, raises nothing, and nothing is written.
C5_StrayChunkDropped ==
    [][\A s \in Sessions :
          (call'.session = s /\ Buffer(s) = <<>> /\ ~IsStartOfMessage(call'.data))
              => /\ Buffer(s)' = <<>>
                 /\ Successes(s)' = Successes(s)
                 /\ fields'[s] = fields[s]
                 /\ result'[s].kind = "none"
                 /\ influx' = NoPoint]_vars

C5_Witness ==
    /\ Called(1) /\ ~call.nonempty
    /\ call.data = Slice(CellFrame, 0, 2)
    /\ Buffer(1) = <<>>
    /\ Successes(1)["cell_voltages"] = 1

\* C6: each success counter equals the number of calls that returned a
\* record of its type.
C6_CounterInvariant ==
    \A s \in Sessions : \A t \in Types : Successes(s)[t] = returned[s][t]

C6_Witness ==
    /\ Successes(1)["cell_voltages"] = 2
    /\ Successes(1)["battery_pack_info"] = 0
    /\ Successes(1)["current_and_temperature"] = 0
    /\ result[1].kind = "IndexError"
    /\ result[1].type = "battery_pack_info"

\* C7: a buffer that passes the completeness test is handled in that call
\* and the buffer is empty when the call ends.
C7_CompleteIsTransient ==
    \A s \in Sessions :
        (Called(s) /\ CompleteAndValid(call.evaluated)) => Buffer(s) = <<>>

\* The buffer is shorter than the highest offset its routine reads.
TooShort(f) ==
    \/ At(f, 5) = 2 /\ Len(f) <= 16
    \/ At(f, 5) = 3 /\ Len(f) <= 17
    \/ At(f, 5) = 4 /\ Len(f) <= 52

\* C8: a buffer that passes the completeness test and is too short for its
\* type ends in IndexError: not None, not a record, nothing written; the
\* chunks EA D1 01 04 FF 02, then F9 F5, give None and then IndexError.
C8_TooShortRaises ==
    \A s \in Sessions :
        /\ (Called(s) /\ IsValidMessage(call.evaluated) /\ TooShort(call.evaluated))
              => /\ result[s].kind = "IndexError"
                 /\ result[s].record = NoRecord
                 /\ influx = NoPoint
        /\ (Called(s) /\ call.data = Slice(RequestCellVoltages, 0, 6))
              => result[s].kind = "none"
        /\ (Called(s) /\ call.data = Slice(RequestCellVoltages, 6, 8)
                /\ call.evaluated = RequestCellVoltages)
              => result[s].kind = "IndexError"

C8_Witness ==
    /\ Called(1)
    /\ call.data = Slice(RequestCellVoltages, 6, 8)
    /\ call.evaluated = RequestCellVoltages
    /\ result[1].kind = "IndexError"

\* C9: a complete frame whose discriminant is not 0x02, 0x03 or 0x04 gives
\* None: nothing raised, nothing written, no counter and no attribute
\* changed.
C9_UnknownDiscriminantIgnored ==
    [][\A s \in Sessions :
          (call'.session = s /\ IsValidMessage(call'.evaluated)
              /\ At(call'.evaluated, 5) \notin {2, 3, 4})
              => /\ result'[s].kind = "none"
                 /\ influx' = NoPoint
                 /\ Successes(s)' = Successes(s)
                 /\ fields'[s] = fields[s]]_vars

C9_Witness ==
    /\ Called(1)
    /\ call.evaluated = UnknownFrame
    /\ result[1].kind = "none"
    /\ Successes(1)["cell_voltages"] = 1

\* C10: a call on one session changes nothing of the other: its buffer, its
\* counters, its attributes and its last result stay as they were.
C10_SessionsIndependent ==
    [][\A s \in Sessions :
          call'.session # s
              => /\ Buffer(s)' = Buffer(s)
                 /\ Successes(s)' = Successes(s)
                 /\ fields'[s] = fields[s]
                 /\ result'[s] = result[s]]_vars

C10_Witness ==
    /\ Called(1) /\ result[1].kind = "record"
    /\ Buffer(2) = Slice(RequestCellVoltages, 0, 6)
    /\ Successes(1)["cell_voltages"] = 1
    /\ Successes(2)["cell_voltages"] = 1

\* The buffer tested is a frame of the current-and-temperature type, long
\* enough for every offset its routine reads.
CurrentDecoded(s) ==
    /\ Called(s)
    /\ IsValidMessage(call.evaluated)
    /\ At(call.evaluated, 5) = 3
    /\ Len(call.evaluated) >= 18

StateOf(f) ==
    IF At(f, 6) = 49 THEN "DISCHARGING"
    ELSE IF At(f, 6) = 50 THEN "CHARGING" ELSE "UNKNOWN"

TemperaturesOf(s, f) ==
    /\ result[s].record.temperature1 = At(f, 14) - 40
    /\ result[s].record.temperature2 = At(f, 15) - 40
    /\ result[s].record.mosfet_temperature = At(f, 16) - 40
    /\ result[s].record.ambient_temperature = At(f, 17) - 40

\* C11, as stated: byte 6 selects the state, the current is
\* ((f[7] << 8) + f[8]) / 100 whatever the state, the temperatures are
\* f[14..17] minus 40; 0x31 with 00 64 gives discharging and 1.00.
C11_CurrentUnsigned ==
    \A s \in Sessions :
        CurrentDecoded(s)
            => /\ result[s].kind = "record"
               /\ fields[s].battery_state = StateOf(call.evaluated)
               /\ result[s].record.current =
                      Float(BigEndian(call.evaluated, 7, 8), 100)
               /\ TemperaturesOf(s, call.evaluated)

\* C11, amended: byte 6 selects the state (0x31 discharging, 0x32 charging,
\* anything else unknown); the current is ((f[7] << 8) + f[8]) / 100,
\* negated when the state is discharging; the temperatures are f[14..17]
\* minus 40; 0x31 with 00 64 gives discharging and -1.00.
C11_CurrentSigned ==
    \A s \in Sessions :
        /\ CurrentDecoded(s)
              => /\ result[s].kind = "record"
                 /\ fields[s].battery_state = StateOf(call.evaluated)
                 /\ result[s].record.current =
                        IF At(call.evaluated, 6) = 49
                        THEN Float(0 - BigEndian(call.evaluated, 7, 8), 100)
                        ELSE Float(BigEndian(call.evaluated, 7, 8), 100)
                 /\ TemperaturesOf(s, call.evaluated)
        /\ (Called(s) /\ call.evaluated = CurrentFrame)
              => /\ fields[s].battery_state = "DISCHARGING"
                 /\ result[s].record.current = Float(0 - 100, 100)

C11_Witness ==
    /\ Called(1) /\ call.nonempty
    /\ call.evaluated = CurrentFrame
    /\ result[1].kind = "record"
    /\ fields[1].battery_state = "DISCHARGING"
    /\ Successes(1)["current_and_temperature"] = 2

\* C12: the event is set exactly when increment has been called at least
\* threshold times: never earlier, and it stays set through further calls;
\* each call counts once.
C12_EventAtThreshold ==
    /\ [](counter.event <=> counter.count >= counter.threshold)
    /\ [][/\ counter'.count = counter.count + 1
          /\ counter'.threshold = counter.threshold
          /\ counter.event => counter'.event]_vars

C12_Witness ==
    /\ counter.threshold = 3
    /\ counter.count = 5
    /\ counter.event

\* monitor_bmv has logged "starting passive scan".
ScanStarted == tasks.bmv \in {"scanning", "stopped"}

\* Every monitor_and_report task has connected and called increment.
AllConnected == tasks.connected = Batteries /\ counter.count >= NUM_BATTERIES

C14_ContinuationAppended ==
    [][\A s \in Sessions :
          (call'.session = s /\ Buffer(s) # <<>> /\ ~IsStartOfMessage(call'.data))
              => call'.evaluated = Buffer(s) \o call'.data]_vars

C14_Witness ==
    /\ Called(1) /\ call.nonempty
    /\ call.data = Slice(RequestCellVoltages, 6, 8)
    /\ call.evaluated = RequestCellVoltages
    /\ fragments[1] = 2

\* C15: when the buffer tested has fewer than 8 bytes or does not end in
\* 0xF5, the call returns None and raises nothing, no counter and no
\* attribute changes, nothing is written, and the buffer tested is kept.
C15_IncompleteRetained ==
    [][\A s \in Sessions :
          (call'.session = s
              /\ (Len(call'.evaluated) < 8
                    \/ call'.evaluated[Len(call'.evaluated)] # 245))
              => /\ result'[s].kind = "none"
                 /\ Successes(s)' = Successes(s)
                 /\ fields'[s] = fields[s]
                 /\ influx' = NoPoint
                 /\ Buffer(s)' = call'.evaluated]_vars

C15_Witness ==
    /\ Called(1)
    /\ call.evaluated = Slice(RequestCellVoltages, 0, 6) \o Slice(CellFrame, 6, 9)
    /\ result[1].kind = "none"
    /\ Buffer(1) = call.evaluated
    /\ Successes(1)["cell_voltages"] = 1

\* C17: between calls the buffer of a session is empty, or has at least 3
\* bytes and begins with EA D1.
C17_BufferBeginsWithStart ==
    \A s \in Sessions :
        \/ Buffer(s) = <<>>
        \/ /\ Len(Buffer(s)) >= 3
           /\ Buffer(s)[1] = 234
           /\ Buffer(s)[2] = 209

C17_Witness ==
    /\ Called(1) /\ call.nonempty
    /\ Buffer(1) = UnknownFrame \o Slice(CellFrame, 6, 9)
    /\ fragments[1] = 2

\* C18: a call that ends in IndexError leaves the attributes and the
\* counters of the session as they were before the call.
C18_FailedDecodeChangesNothing ==
    [][\A s \in Sessions :
          (call'.session = s /\ result'[s].kind = "IndexError")
              => /\ fields'[s] = fields[s]
                 /\ Successes(s)' = Successes(s)]_vars

\* C19: a call never changes the bytes of a chunk object it was handed
\* earlier: the object in which the caller passed the last start chunk
\* holds the same bytes after a later call with a continuation chunk.
C19_ChunkNotModified ==
    [][\A s \in Sessions :
          (call'.session = s /\ ~IsStartOfMessage(call'.data)
              /\ DataObject(s) \in DOMAIN objects
              /\ DataObject(s) \in DOMAIN objects')
              => objects'[DataObject(s)] = objects[DataObject(s)]]_vars

\* C16: no call lowers a success counter, and report_successes logs the
\* counters and changes nothing of the session: buffer, counters and
\* attributes are as before it.
C16_CountersOnlyGrow ==
    [][\A s \in Sessions :
          /\ \A t \in Types : Successes(s)'[t] >= Successes(s)[t]
          /\ logged' # NoLog
                => /\ logged'.counts = Successes(logged'.session)
                   /\ Buffer(s)' = Buffer(s)
                   /\ Successes(s)' = Successes(s)
                   /\ fields'[s] = fields[s]]_vars

C16_Witness ==
    /\ logged # NoLog
    /\ logged.session = 1
    /\ logged.counts["cell_voltages"] = 2
    /\ Successes(1)["cell_voltages"] = 2
    /\ Buffer(1) = Slice(RequestCellVoltages, 0, 6)

====
